---- MODULE Spec2Model ----
(***************************************************************************)
(* Pong: the Menu / Play / GameOver loop of main() in main.py, one action  *)
(* per branch of the loop body (one action = one whole frame), over a Game *)
(* object that owns two bats and a ball.                                   *)
(*                                                                         *)
(* main.py imports Game, p1_controls, p2_controls and the constants from   *)
(* the pong package, which is not part of the sources at hand.  Game is    *)
(* therefore modelled from its documented contract: update() moves each    *)
(* bat by the velocity its control function returns, clamped to the field, *)
(* moves the ball, reflects it on a bat and scores for the opposing side   *)
(* when it leaves through a side boundary.  What the contract leaves open  *)
(* (the velocity a control function returns, whether the ball meets the    *)
(* bat, the direction of a serve) is a nondeterministic choice.            *)
(***************************************************************************)
EXTENDS Integers, Sequences, FiniteSets

\* ---------------------------------------------------------------- bounds
\* Play field, in cells: the ball's column is 0 .. FieldW-1, a bat's top
\* row is 0 .. FieldH-BatH.
FieldW == 3
FieldH == 2
BatH == 1
\* The velocities a present control function returns in the frames explored
\* (no paddle key held).  The ball does not depend on the bats' rows here, so
\* the loop's state, the scores and the calls are the same for any other set.
PaddleInputs == {0}
\* The background game of the menu scores without end: frames that would
\* take a score above MaxScore are left out.
MaxScore == 11
\* Game objects are numbered in order of construction, 0 .. MaxGames.
MaxGames == 3
\* The largest velocity tried when a Game is ticked on its own.
MaxVelocity == 2

\* ------------------------------------------------------------- constants
\* main.py:102  max(bat.score ...) > 9
WinScore == 9

None == "None"
MENU == "MENU"
PLAY == "PLAY"
GAME_OVER == "GAME_OVER"
State == {MENU, PLAY, GAME_OVER}

\* Events pygame.event.get() may return in one frame.
EventLists == {<<>>, <<"QUIT">>}
\* pygame.key.get_pressed(), restricted to the keys main() reads.
KeyStates == [space : BOOLEAN, up : BOOLEAN, down : BOOLEAN]

VARIABLES
    state,          \* State
    num_players,    \* 1 or 2
    controls,       \* pair of control functions, None when absent
    game,           \* the current Game object
    space_down,     \* SPACE as polled in the previous frame
    running,        \* loop condition
    events,         \* events polled in the last frame
    keys,           \* key state polled in the last frame
    space_pressed,  \* rising edge of SPACE computed in the last frame
    calls,          \* Game constructions and method calls of the last frame
    played          \* sound cues played in the last frame

vars == <<state, num_players, controls, game, space_down, running,
          events, keys, space_pressed, calls, played>>

\* ------------------------------------------------------------------ Game
Max(a, b) == IF a >= b THEN a ELSE b
Min(a, b) == IF a <= b THEN a ELSE b

\* Mutant: the bat is moved without regard to the field.
ClampNone(y, lo, hi) == y

Clamp(y, lo, hi) == Max(lo, Min(hi, y))

\* A serve: the ball at the centre column, moving left or right.
Serve(dir) == [x |-> FieldW \div 2, vx |-> dir]

\* Game(controls, sfx).  id is the identity of the object.
NewGame(id, ctrl, dir) ==
    [ id       |-> id,
      controls |-> ctrl,
      bats     |-> << [y |-> (FieldH - BatH) \div 2, score |-> 0],
                      [y |-> (FieldH - BatH) \div 2, score |-> 0] >>,
      ball     |-> Serve(dir) ]

\* Velocities a control function may return for the keys held in a frame of
\* the loop; an absent one leaves the bat where it is.
ControlVelocities(ctrl) == IF ctrl = None THEN {0} ELSE PaddleInputs

MoveBat(bat, v) == [bat EXCEPT !.y = Clamp(bat.y + v, 0, FieldH - BatH)]

\* Mutant: a point counts double.
AddPointTwice(bats, i) == [bats EXCEPT ![i].score = @ + 2]

AddPoint(bats, i) == [bats EXCEPT ![i].score = @ + 1]

\* One tick.  v1, v2: the bats' velocities; hit: the ball meets the bat on
\* the side it is about to leave; dir: the direction of the next serve.
\* The result is the new Game and the sounds played.
UpdateWith(g, v1, v2, hit, dir) ==
    LET moved == << MoveBat(g.bats[1], v1), MoveBat(g.bats[2], v2) >>
        nx    == g.ball.x + g.ball.vx
        out   == nx < 0 \/ nx > FieldW - 1
    IN  IF ~out
        THEN [ game |-> [g EXCEPT !.bats = moved, !.ball.x = nx],
               sfx  |-> <<>> ]
        ELSE IF hit
        THEN [ game |-> [g EXCEPT !.bats = moved, !.ball.vx = -g.ball.vx],
               sfx  |-> <<"hit">> ]
        ELSE [ game |-> [g EXCEPT !.bats = AddPoint(moved, IF nx < 0 THEN 2 ELSE 1),
                                  !.ball = Serve(dir)],
               sfx  |-> <<"score">> ]

\* Every outcome of game.update().
Updates(g) ==
    { UpdateWith(g, v1, v2, hit, dir) :
        v1 \in ControlVelocities(g.controls[1]),
        v2 \in ControlVelocities(g.controls[2]),
        hit \in BOOLEAN, dir \in {-1, 1} }

MaxBatScore(g) == Max(g.bats[1].score, g.bats[2].score)

\* ------------------------------------------------------------ main loop
\* Mutant: the QUIT event is not handled.
RunningIgnoresQuit(evs) == TRUE

\* main.py:53-55
Running(evs) == \A i \in 1 .. Len(evs) : evs[i] # "QUIT"

\* Mutant: the level of the key instead of its rising edge.
SpacePressedLevel(space_now, was_down) == space_now

\* main.py:61
SpacePressed(space_now, was_down) == space_now /\ ~was_down

\* main.py:44 and 59-62 over a sequence of frames: the flag of each frame,
\* was_down being SPACE as polled before the first of them.
RECURSIVE EdgeFlags(_, _)
EdgeFlags(downs, was_down) ==
    IF downs = <<>> THEN <<>>
    ELSE <<SpacePressed(Head(downs), was_down)>> \o EdgeFlags(Tail(downs), Head(downs))

\* Mutant: two independent tests instead of if / elif.
MenuSelectBoth(n, k) ==
    LET a == IF k.up /\ n = 2 THEN [num |-> 1, cue |-> <<"up">>]
                               ELSE [num |-> n, cue |-> <<>>]
    IN  IF k.down /\ a.num = 1 THEN [num |-> 2, cue |-> a.cue \o <<"down">>]
                                ELSE a

\* Mutant: the player count is stepped without testing its value.
MenuSelectUnguarded(n, k) ==
    IF k.up THEN [num |-> n - 1, cue |-> <<"up">>]
    ELSE IF k.down THEN [num |-> n + 1, cue |-> <<"down">>]
    ELSE [num |-> n, cue |-> <<>>]

\* main.py:67-72: the new player count and the cue played, if any.
MenuSelect(n, k) ==
    IF k.up /\ n = 2 THEN [num |-> 1, cue |-> <<"up">>]
    ELSE IF k.down /\ n = 1 THEN [num |-> 2, cue |-> <<"down">>]
    ELSE [num |-> n, cue |-> <<>>]

\* Mutant: player 2's control function is installed whatever the count.
StartControlsTwo(n) == << "p1_controls", "p2_controls" >>

\* main.py:78-81
StartControls(n) == << "p1_controls", IF n = 2 THEN "p2_controls" ELSE None >>

\* Mutant: the round ends one point early.
HasWinnerEarly(g) == MaxBatScore(g) >= WinScore

\* Mutant: the round ends one point late.
HasWinnerLate(g) == MaxBatScore(g) > WinScore + 1

\* main.py:102
HasWinner(g) == MaxBatScore(g) > WinScore

Init ==
    /\ state = MENU
    /\ num_players = 1
    /\ controls = <<None, None>>
    /\ \E dir \in {-1, 1} : game = NewGame(0, controls, dir)
    /\ space_down = FALSE
    /\ running = TRUE
    /\ events = <<>>
    /\ keys = [space |-> FALSE, up |-> FALSE, down |-> FALSE]
    /\ space_pressed = FALSE
    /\ calls = <<>>
    /\ played = <<>>

\* Mutant: the previous state of SPACE is never stored.
PollNoTrack(evs, k) ==
    /\ running
    /\ events' = evs
    /\ running' = Running(evs)
    /\ keys' = k
    /\ space_pressed' = SpacePressed(k.space, space_down)
    /\ space_down' = space_down

\* Mutant: the previous state of SPACE is forgotten during a round.
PollResetInPlay(evs, k) ==
    /\ running
    /\ events' = evs
    /\ running' = Running(evs)
    /\ keys' = k
    /\ space_pressed' = SpacePressed(k.space, space_down)
    /\ space_down' = (IF state = PLAY THEN FALSE ELSE k.space)

\* main.py:51-62: the loop condition, the events and the keys of a frame.
Poll(evs, k) ==
    /\ running
    /\ events' = evs
    /\ running' = Running(evs)
    /\ keys' = k
    /\ space_pressed' = SpacePressed(k.space, space_down)
    /\ space_down' = k.space

\* Mutant: the round is played on the background Game of the menu.
MenuFrameReuse(evs, k) ==
    /\ state = MENU
    /\ Poll(evs, k)
    /\ LET sel == MenuSelect(num_players, k)
       IN  /\ num_players' = sel.num
           /\ IF SpacePressed(k.space, space_down)
              THEN /\ game.id < MaxGames
                   /\ state' = PLAY
                   /\ controls' = StartControls(sel.num)
                   /\ game' = [game EXCEPT !.controls = controls']
                   /\ calls' = << <<"flip", game.id>> >>
                   /\ played' = sel.cue
              ELSE /\ \E u \in Updates(game) :
                         /\ MaxBatScore(u.game) <= MaxScore
                         /\ game' = u.game
                         /\ played' = sel.cue \o u.sfx
                   /\ calls' = << <<"update", game.id>>, <<"flip", game.id>> >>
                   /\ UNCHANGED <<state, controls>>

\* Mutant: update() is called after the if / else, in every Menu frame.
MenuFrameAlwaysUpdate(evs, k) ==
    /\ state = MENU
    /\ Poll(evs, k)
    /\ LET sel == MenuSelect(num_players, k)
       IN  /\ num_players' = sel.num
           /\ IF SpacePressed(k.space, space_down)
              THEN /\ game.id < MaxGames
                   /\ state' = PLAY
                   /\ controls' = StartControls(sel.num)
                   /\ \E dir \in {-1, 1} :
                         \E u \in Updates(NewGame(game.id + 1, controls', dir)) :
                            /\ game' = u.game
                            /\ played' = sel.cue \o u.sfx
                   /\ calls' = << <<"Game", game.id + 1>>, <<"update", game.id + 1>>,
                                  <<"flip", game.id + 1>> >>
              ELSE /\ \E u \in Updates(game) :
                         /\ MaxBatScore(u.game) <= MaxScore
                         /\ game' = u.game
                         /\ played' = sel.cue \o u.sfx
                   /\ calls' = << <<"update", game.id>>, <<"flip", game.id>> >>
                   /\ UNCHANGED <<state, controls>>

\* Mutant: the selection is read only in a frame that does not start a round.
MenuFrameSelectElse(evs, k) ==
    /\ state = MENU
    /\ Poll(evs, k)
    /\ IF SpacePressed(k.space, space_down)
       THEN /\ game.id < MaxGames
            /\ state' = PLAY
            /\ controls' = StartControls(num_players)
            /\ \E dir \in {-1, 1} :
                  game' = NewGame(game.id + 1, controls', dir)
            /\ calls' = << <<"Game", game.id + 1>>, <<"flip", game.id + 1>> >>
            /\ played' = <<>>
            /\ UNCHANGED num_players
       ELSE LET sel == MenuSelect(num_players, k)
            IN  /\ num_players' = sel.num
                /\ \E u \in Updates(game) :
                      /\ MaxBatScore(u.game) <= MaxScore
                      /\ game' = u.game
                      /\ played' = sel.cue \o u.sfx
                /\ calls' = << <<"update", game.id>>, <<"flip", game.id>> >>
                /\ UNCHANGED <<state, controls>>

\* main.py:65-94 and 122-123
MenuFrame(evs, k) ==
    /\ state = MENU
    /\ Poll(evs, k)
    /\ LET sel == MenuSelect(num_players, k)
       IN  /\ num_players' = sel.num
           /\ IF SpacePressed(k.space, space_down)
              THEN /\ game.id < MaxGames
                   /\ state' = PLAY
                   /\ controls' = StartControls(sel.num)
                   /\ \E dir \in {-1, 1} :
                         game' = NewGame(game.id + 1, controls', dir)
                   /\ calls' = << <<"Game", game.id + 1>>, <<"flip", game.id + 1>> >>
                   /\ played' = sel.cue
              ELSE /\ \E u \in Updates(game) :
                         /\ MaxBatScore(u.game) <= MaxScore
                         /\ game' = u.game
                         /\ played' = sel.cue \o u.sfx
                   /\ calls' = << <<"update", game.id>>, <<"flip", game.id>> >>
                   /\ UNCHANGED <<state, controls>>

\* Mutant: the frame is drawn before the Game is advanced.
PlayFrameDrawFirst(evs, k) ==
    /\ state = PLAY
    /\ Poll(evs, k)
    /\ \E u \in Updates(game) :
          /\ MaxBatScore(u.game) <= MaxScore
          /\ game' = u.game
          /\ played' = u.sfx
    /\ calls' = << <<"draw", game.id>>, <<"update", game.id>>, <<"flip", game.id>> >>
    /\ state' = IF HasWinner(game') THEN GAME_OVER ELSE PLAY
    /\ UNCHANGED <<num_players, controls>>

\* main.py:97-103 and 122-123
PlayFrame(evs, k) ==
    /\ state = PLAY
    /\ Poll(evs, k)
    /\ \E u \in Updates(game) :
          /\ MaxBatScore(u.game) <= MaxScore
          /\ game' = u.game
          /\ played' = u.sfx
    /\ calls' = << <<"update", game.id>>, <<"draw", game.id>>, <<"flip", game.id>> >>
    /\ state' = IF HasWinner(game') THEN GAME_OVER ELSE PLAY
    /\ UNCHANGED <<num_players, controls>>

\* Mutant: the return to the menu keeps the player count and the controls.
GameOverFrameNoReset(evs, k) ==
    /\ state = GAME_OVER
    /\ Poll(evs, k)
    /\ played' = <<>>
    /\ IF SpacePressed(k.space, space_down)
       THEN /\ game.id < MaxGames
            /\ state' = MENU
            /\ \E dir \in {-1, 1} :
                  game' = NewGame(game.id + 1, <<None, None>>, dir)
            /\ calls' = << <<"Game", game.id + 1>>, <<"flip", game.id + 1>> >>
            /\ UNCHANGED <<num_players, controls>>
       ELSE /\ calls' = << <<"flip", game.id>> >>
            /\ UNCHANGED <<state, num_players, controls, game>>

\* Mutant: SPACE on the game-over screen starts the next round at once.
GameOverFrameToPlay(evs, k) ==
    /\ state = GAME_OVER
    /\ Poll(evs, k)
    /\ played' = <<>>
    /\ IF SpacePressed(k.space, space_down)
       THEN /\ game.id < MaxGames
            /\ state' = PLAY
            /\ num_players' = 1
            /\ controls' = <<None, None>>
            /\ \E dir \in {-1, 1} :
                  game' = NewGame(game.id + 1, controls', dir)
            /\ calls' = << <<"Game", game.id + 1>>, <<"flip", game.id + 1>> >>
       ELSE /\ calls' = << <<"flip", game.id>> >>
            /\ UNCHANGED <<state, num_players, controls, game>>

\* Mutant: the Game keeps running behind the game-over screen.
GameOverFrameUpdates(evs, k) ==
    /\ state = GAME_OVER
    /\ Poll(evs, k)
    /\ IF SpacePressed(k.space, space_down)
       THEN /\ game.id < MaxGames
            /\ state' = MENU
            /\ num_players' = 1
            /\ controls' = <<None, None>>
            /\ \E dir \in {-1, 1} :
                  game' = NewGame(game.id + 1, controls', dir)
            /\ calls' = << <<"Game", game.id + 1>>, <<"flip", game.id + 1>> >>
            /\ played' = <<>>
       ELSE /\ \E u \in Updates(game) :
                  /\ MaxBatScore(u.game) <= MaxScore
                  /\ game' = u.game
                  /\ played' = u.sfx
            /\ calls' = << <<"update", game.id>>, <<"flip", game.id>> >>
            /\ UNCHANGED <<state, num_players, controls>>

\* main.py:106-119 and 122-123
GameOverFrame(evs, k) ==
    /\ state = GAME_OVER
    /\ Poll(evs, k)
    /\ played' = <<>>
    /\ IF SpacePressed(k.space, space_down)
       THEN /\ game.id < MaxGames
            /\ state' = MENU
            /\ num_players' = 1
            /\ controls' = <<None, None>>
            /\ \E dir \in {-1, 1} :
                  game' = NewGame(game.id + 1, controls', dir)
            /\ calls' = << <<"Game", game.id + 1>>, <<"flip", game.id + 1>> >>
       ELSE /\ calls' = << <<"flip", game.id>> >>
            /\ UNCHANGED <<state, num_players, controls, game>>

Next ==
    \E evs \in EventLists, k \in KeyStates :
        \/ MenuFrame(evs, k)
        \/ PlayFrame(evs, k)
        \/ GameOverFrame(evs, k)

Spec == Init /\ [][Next]_vars

\* ------------------------------------------------------------ Game alone
\* A Game ticked on its own, its control functions returning any velocity
\* of -MaxVelocity .. MaxVelocity; the loop's variables stay as they are
\* when the Game is constructed.
ControlPairs ==
    { <<None, None>>, <<"p1_controls", None>>, <<"p1_controls", "p2_controls">> }

AnyVelocities(ctrl) == IF ctrl = None THEN {0} ELSE -MaxVelocity .. MaxVelocity

InitGame ==
    /\ \E ctrl \in ControlPairs, dir \in {-1, 1} :
          /\ controls = ctrl
          /\ game = NewGame(0, ctrl, dir)
    /\ state = (IF controls = <<None, None>> THEN MENU ELSE PLAY)
    /\ num_players = (IF controls[2] = None THEN 1 ELSE 2)
    /\ space_down = FALSE
    /\ running = TRUE
    /\ events = <<>>
    /\ keys = [space |-> FALSE, up |-> FALSE, down |-> FALSE]
    /\ space_pressed = FALSE
    /\ calls = << <<"Game", 0>> >>
    /\ played = <<>>

\* game.update() with the velocities v1 and v2.
GameTick(v1, v2) ==
    /\ \E hit \in BOOLEAN, dir \in {-1, 1} :
          LET u == UpdateWith(game, v1, v2, hit, dir)
          IN  /\ MaxBatScore(u.game) <= MaxScore
              /\ game' = u.game
              /\ played' = u.sfx
    /\ calls' = << <<"update", game.id>> >>
    /\ UNCHANGED <<state, num_players, controls, space_down, running,
                   events, keys, space_pressed>>

NextGame ==
    \E v1 \in AnyVelocities(game.controls[1]),
       v2 \in AnyVelocities(game.controls[2]) : GameTick(v1, v2)

GameSpec == InitGame /\ [][NextGame]_vars

\* ---------------------------------------------------------------- claims
Count(seq, x) == Cardinality({i \in DOMAIN seq : seq[i] = x})
Ops(seq) == [i \in DOMAIN seq |-> seq[i][1]]
QuitPolled == \E i \in DOMAIN events : events[i] = "QUIT"
\* SPACE is down in the frame of this step and was not in the frame before.
Rising == keys'.space /\ ~keys.space
Scores(g) == <<g.bats[1].score, g.bats[2].score>>

\* C1: a frame that starts in Menu ends in Play if and only if SPACE is down
\* in it and was not down in the frame before (not down before the first
\* frame); otherwise it ends in Menu, whatever the other keys, the events and
\* the scores of the background game are.
C1_MenuToPlay ==
    [][state = MENU =>
         /\ state' \in {MENU, PLAY}
         /\ (state' = PLAY) <=> Rising]_vars

\* C1 witness: the frame just ended went from Menu to Play (it constructed
\* the Game of the round) with UP held as well.
C1_Witness ==
    /\ state = PLAY
    /\ calls[1] = <<"Game", game.id>>
    /\ keys.space /\ keys.up

\* C2: a frame that starts in Play calls update() once, and ends in GameOver
\* if and only if a bat's score is above 9 after that update; otherwise it
\* ends in Play.  The keys do not enter.
C2_PlayToGameOver ==
    [][state = PLAY =>
         /\ state' \in {PLAY, GAME_OVER}
         /\ Count(Ops(calls'), "update") = 1
         /\ \E u \in Updates(game) : game' = u.game
         /\ (state' = GAME_OVER) <=>
               (game'.bats[1].score > 9 \/ game'.bats[2].score > 9)]_vars

\* C2 witness: the frame just ended went from Play to GameOver, SPACE, UP and
\* DOWN all held.
C2_Witness ==
    /\ state = GAME_OVER
    /\ calls[1] = <<"update", game.id>>
    /\ keys.space /\ keys.up /\ keys.down

\* C3: a frame that starts in GameOver ends in Menu if and only if SPACE has a
\* rising edge in it; then the player count is 1, the controls are
\* (None, None) and the Game is another object with both scores 0.  Without
\* the edge the frame ends in GameOver.
C3_GameOverToMenu ==
    [][state = GAME_OVER =>
         IF Rising
         THEN /\ state' = MENU
              /\ num_players' = 1
              /\ controls' = <<None, None>>
              /\ game'.id # game.id
              /\ game'.controls = <<None, None>>
              /\ Scores(game') = <<0, 0>>
         ELSE state' = GAME_OVER]_vars

\* C3 witness: the frame just ended went from GameOver back to Menu.
C3_Witness ==
    /\ state = MENU
    /\ game.id > 0
    /\ calls[1] = <<"Game", game.id>>

\* C4: in every frame, whatever the state, the SPACE-pressed flag is true if
\* and only if SPACE is down in that frame and was not down in the frame
\* before; for the key states down, down, down, up, down the flags are true,
\* false, false, false, true.
C4_RisingEdge ==
    /\ EdgeFlags(<<TRUE, TRUE, TRUE, FALSE, TRUE>>, FALSE)
          = <<TRUE, FALSE, FALSE, FALSE, TRUE>>
    /\ [][space_pressed' = Rising]_vars

\* C4 witness: a rising edge in a Play frame that followed a Play frame.
C4_Witness ==
    /\ state = PLAY
    /\ calls[1] = <<"update", game.id>>
    /\ space_pressed

\* C5: no frame starts after a frame that polled QUIT, and the loop has
\* stopped only if the last frame polled QUIT.
C5_Quit ==
    /\ [](~running => QuitPolled)
    /\ [][~QuitPolled]_vars

\* C5 witness: the loop stopped by a QUIT polled in a Play frame.
C5_Witness ==
    /\ ~running
    /\ QuitPolled
    /\ state = PLAY
    /\ calls[1] = <<"update", game.id>>

\* C6: the state is Menu at the start, and a frame either leaves it or takes
\* it from Menu to Play, from Play to GameOver or from GameOver to Menu: one
\* change per frame at most, and no other change.
C6_Transitions ==
    /\ state = MENU
    /\ [][\/ state' = state
          \/ <<state, state'>> \in {<<MENU, PLAY>>, <<PLAY, GAME_OVER>>,
                                    <<GAME_OVER, MENU>>}]_vars

\* C6 witness: back in Menu after a whole round, the Game being the third.
C6_Witness ==
    /\ state = MENU
    /\ game.id = 2
    /\ calls[1] = <<"Game", 2>>

\* C7: the frame that goes from Menu to Play installs, in the loop and in the
\* new Game, the controls (p1_controls, p2_controls) if the player count is 2
\* when the controls are built and (p1_controls, None) if it is 1; a Play
\* frame leaves them as they are.
C7_Controls ==
    [][/\ (state = MENU /\ state' = PLAY) =>
            /\ controls' = << "p1_controls",
                              IF num_players' = 2 THEN "p2_controls" ELSE None >>
            /\ game'.controls = controls'
       /\ state = PLAY =>
            /\ controls' = controls
            /\ game'.controls = game.controls]_vars

\* C7 witness: the frame just ended went from Menu to Play with DOWN down as
\* well, after a round played by one player: the count became 2 in that very
\* frame and player 2's control function is installed.
C7_Witness ==
    /\ state = PLAY
    /\ game.id = 3
    /\ calls[1] = <<"Game", game.id>>
    /\ keys.down /\ ~keys.up
    /\ game.controls = <<"p1_controls", "p2_controls">>

\* C8: in a frame that starts in Menu the player count goes from 2 to 1
\* exactly when UP is down and the count is 2, and from 1 to 2 exactly when
\* DOWN is down and the count is 1; "up" is played once on the first switch,
\* "down" once on the second, and neither is played otherwise.
C8_Select ==
    [][state = MENU =>
         LET toOne == num_players = 2 /\ num_players' = 1
             toTwo == num_players = 1 /\ num_players' = 2
         IN  /\ toOne <=> (keys'.up /\ num_players = 2)
             /\ toTwo <=> (keys'.down /\ num_players = 1)
             /\ Count(played', "up") = (IF toOne THEN 1 ELSE 0)
             /\ Count(played', "down") = (IF toTwo THEN 1 ELSE 0)
             /\ Count(played', "up") + Count(played', "down") <= 1]_vars

\* C8 witness: a Menu frame with UP and DOWN both down switched from 2 to 1.
C8_Witness ==
    /\ state = MENU
    /\ keys.up /\ keys.down
    /\ num_players = 1
    /\ Count(played, "up") = 1

\* C9: a frame replaces the Game if and only if it goes from Menu to Play or
\* from GameOver to Menu; the new Game is one constructed in that frame, never
\* held before, with both scores 0.  So the Game of a round is the one still
\* held in the GameOver state that follows.
C9_Replace ==
    [][LET replaced == game'.id # game.id
       IN  /\ replaced <=> <<state, state'>> \in {<<MENU, PLAY>>, <<GAME_OVER, MENU>>}
           /\ replaced <=> Count(Ops(calls'), "Game") > 0
           /\ replaced =>
                /\ game'.id > game.id
                /\ Count(calls', <<"Game", game'.id>>) = 1
                /\ Scores(game') = <<0, 0>>]_vars

\* C9 witness: GameOver holding the Game of the second round after a frame
\* that stayed in GameOver.
C9_Witness ==
    /\ state = GAME_OVER
    /\ game.id = 3
    /\ calls = << <<"flip", 3>> >>

\* C10: a frame that starts and ends in Menu calls update() once, on the
\* background Game, which is advanced by exactly that call; the frame that
\* goes from Menu to Play calls update() on no Game, and leaves the new Game
\* as constructed.
C10_MenuUpdate ==
    [][state = MENU =>
         IF state' = MENU
         THEN /\ Count(Ops(calls'), "update") = 1
              /\ Count(calls', <<"update", game.id>>) = 1
              /\ \E u \in Updates(game) : game' = u.game
         ELSE /\ Count(Ops(calls'), "update") = 0
              /\ \E dir \in {-1, 1} :
                    game' = NewGame(game'.id, game'.controls, dir)]_vars

\* C10 witness: a Menu frame with SPACE held from the frame before advanced
\* the background Game up to a score.
C10_Witness ==
    /\ state = MENU
    /\ keys.space /\ ~space_pressed
    /\ calls[1] = <<"update", game.id>>
    /\ played = <<"score">>

\* C11: draw() is called once in a frame that starts in Play and in no other
\* frame; before it, in the same frame, update() is called exactly once, on
\* the same Game, and after it no update() is called before the flip.
C11_UpdateThenDraw ==
    [][/\ Count(Ops(calls'), "draw") = (IF state = PLAY THEN 1 ELSE 0)
       /\ \A i \in DOMAIN calls' :
             calls'[i][1] = "draw" =>
               /\ calls'[i][2] = game.id /\ game'.id = game.id
               /\ Cardinality({j \in 1 .. i - 1 : calls'[j][1] = "update"}) = 1
               /\ \E j \in 1 .. i - 1 : calls'[j] = <<"update", calls'[i][2]>>
               /\ \A j \in i + 1 .. Len(calls') : calls'[j][1] # "update"
               /\ \E j \in i + 1 .. Len(calls') : calls'[j][1] = "flip"]_vars

\* C11 witness: a Play frame drew the Game after an update in which the ball
\* was returned by a bat.
C11_Witness ==
    /\ state = PLAY
    /\ calls[2] = <<"draw", game.id>>
    /\ played = <<"hit">>

\* C12: a Game is constructed with both scores 0; across an update() no
\* score decreases and the two together grow by 1 at most; the right bat's
\* score grows by 1 exactly when the ball leaves through the left boundary
\* (it was to cross it and was not returned) and the left bat's exactly when
\* it leaves through the right boundary, the other score staying.
C12_Scores ==
    /\ \A ctrl \in ControlPairs, dir \in {-1, 1} :
          Scores(NewGame(0, ctrl, dir)) = <<0, 0>>
    /\ [][LET nx       == game.ball.x + game.ball.vx
              returned == game'.ball = [x |-> game.ball.x, vx |-> -game.ball.vx]
              outLeft  == nx < 0 /\ ~returned
              outRight == nx > FieldW - 1 /\ ~returned
              s        == Scores(game)
              t        == Scores(game')
          IN  /\ t[1] >= s[1] /\ t[2] >= s[2]
              /\ t[1] + t[2] <= s[1] + s[2] + 1
              /\ t[1] = s[1] + (IF outRight THEN 1 ELSE 0)
              /\ t[2] = s[2] + (IF outLeft THEN 1 ELSE 0)]_vars

\* C12 witness: the ball has just left the field, both bats having scored
\* before.
C12_Witness ==
    /\ played = <<"score">>
    /\ Scores(game) = <<2, 1>>
    /\ game.ball.x = FieldW \div 2

\* C13: after every update(), whatever velocities the control functions
\* return, the row of each bat is between 0 and the field's height minus
\* the bat's height.
C13_BatsInField ==
    \A i \in 1 .. 2 :
        game.bats[i].y >= 0 /\ game.bats[i].y <= FieldH - BatH

\* C13 witness: after an update() one bat is at the bottom of the field and
\* the other at the top.
C13_Witness ==
    /\ calls = << <<"update", game.id>> >>
    /\ game.bats[1].y = FieldH - BatH
    /\ game.bats[2].y = 0
    /\ game.controls[2] # None

\* C14: in Play both scores are 9 at most; in GameOver one bat has exactly
\* 10 and the other 9 at most; and a frame that starts and ends in GameOver
\* leaves both scores as they are.
C14_FirstToTen ==
    /\ [](state = PLAY => Scores(game)[1] <= 9 /\ Scores(game)[2] <= 9)
    /\ [](state = GAME_OVER =>
            \/ Scores(game)[1] = 10 /\ Scores(game)[2] <= 9
            \/ Scores(game)[2] = 10 /\ Scores(game)[1] <= 9)
    /\ [][(state = GAME_OVER /\ state' = GAME_OVER) =>
            Scores(game') = Scores(game)]_vars

\* C14 witness: the frame just ended went from Play to GameOver, the right
\* bat winning 10 to 9.
C14_Witness ==
    /\ state = GAME_OVER
    /\ calls[1] = <<"update", game.id>>
    /\ Scores(game) = <<9, 10>>

\* C15 as stated: the Menu frame in which SPACE rises leaves the player
\* count as it was and plays no cue.
C15_Original ==
    [][(state = MENU /\ Rising) =>
         /\ num_players' = num_players
         /\ played' = <<>>]_vars

\* C15 as amended: the Menu frame in which SPACE rises reads UP and DOWN as
\* any other Menu frame does: the count goes from 2 to 1, with the "up" cue,
\* if UP is down, from 1 to 2, with the "down" cue, if DOWN is down, and
\* stays, with no cue, otherwise; the round starts with the count after
\* that switch.
C15_SelectThenStart ==
    [][(state = MENU /\ Rising) =>
         /\ state' = PLAY
         /\ IF keys'.up /\ num_players = 2
            THEN num_players' = 1 /\ played' = <<"up">>
            ELSE IF keys'.down /\ num_players = 1
            THEN num_players' = 2 /\ played' = <<"down">>
            ELSE num_players' = num_players /\ played' = <<>>
         /\ (game'.controls[2] = "p2_controls") <=> (num_players' = 2)]_vars

\* C15 witness: the first frame, SPACE and DOWN down together, started a
\* round for two players and played the "down" cue.
C15_Witness ==
    /\ state = PLAY
    /\ game.id = 1
    /\ calls[1] = <<"Game", 1>>
    /\ keys.space /\ keys.down
    /\ num_players = 2
    /\ played = <<"down">>
    /\ game.controls = <<"p1_controls", "p2_controls">>

\* C16: a frame goes from Menu to Play or from GameOver to Menu only if
\* SPACE is down in it and was not down in the frame before, so that a frame
\* with SPACE up lies between any two such frames; SPACE held from a Play
\* frame on never takes GameOver back to Menu; and after every frame, in
\* every state, the stored key state is the one just polled.
C16_OnePressOneChange ==
    /\ [](space_down = keys.space)
    /\ [][/\ <<state, state'>> \in {<<MENU, PLAY>>, <<GAME_OVER, MENU>>} => Rising
          /\ (state \in {PLAY, GAME_OVER} /\ keys.space /\ keys'.space) =>
                state' # MENU]_vars

\* C16 witness: a frame that started in GameOver with SPACE held from the
\* frame before stayed in GameOver.
C16_Witness ==
    /\ state = GAME_OVER
    /\ calls = << <<"flip", game.id>> >>
    /\ keys.space
    /\ ~space_pressed

\* C17: the player count is 1 or 2 in every state, and a frame that starts
\* in Menu with UP and DOWN both down takes it from 1 to 2 or from 2 to 1.
C17_CountInRange ==
    /\ [](num_players \in {1, 2})
    /\ [][(state = MENU /\ keys'.up /\ keys'.down) =>
            num_players' = 3 - num_players]_vars

\* C17 witness: a frame that stayed in Menu with UP, DOWN and SPACE all down
\* took the count from 1 to 2.
C17_Witness ==
    /\ state = MENU
    /\ calls = << <<"update", game.id>>, <<"flip", game.id>> >>
    /\ keys.up /\ keys.down /\ keys.space
    /\ num_players = 2
    /\ Count(played, "down") = 1

\* C18: a frame that starts in Play leaves the player count, the controls
\* and the identity of the Game as they are, whatever the keys; a frame that
\* starts in GameOver without a rising edge of SPACE leaves the count, the
\* controls and the whole Game, scores included, as they are; and no frame
\* that starts in GameOver calls update() or draw().
C18_FrameEffect ==
    [][/\ state = PLAY =>
            /\ num_players' = num_players
            /\ controls' = controls
            /\ game'.id = game.id
            /\ Count(Ops(calls'), "Game") = 0
       /\ (state = GAME_OVER /\ ~Rising) =>
            /\ num_players' = num_players
            /\ controls' = controls
            /\ game' = game
       /\ state = GAME_OVER =>
            /\ Count(Ops(calls'), "update") = 0
            /\ Count(Ops(calls'), "draw") = 0]_vars

\* C18 witness: a frame that started in GameOver with UP and DOWN down and
\* SPACE up, after a round for two players.
C18_Witness ==
    /\ state = GAME_OVER
    /\ calls = << <<"flip", game.id>> >>
    /\ keys.up /\ keys.down /\ ~keys.space
    /\ num_players = 2

====
